---- MODULE Spec2Model ----
(***************************************************************************)
(* Model of reddit_bot_safe.py: the persisted counters, the window-aware   *)
(* action selection, the anti-repetition pickers, the backoff wrapper and  *)
(* the tick do_one_action.                                                  *)
(*                                                                         *)
(* Time is counted in whole hours since midnight of day 0 (the UTC/local   *)
(* offset is a constant shift and is left out): the local hour of a clock  *)
(* reading t is t % 24 and its calendar date is t \div 24.                 *)
(***************************************************************************)
EXTENDS Integers, Sequences, FiniteSets, TLC

VARIABLES
    now,      \* the clock reading of the last tick, in hours
    state,    \* the in-memory state dict of the running process
    disk,     \* STATE_FILE (absent until the first save)
    links,    \* LINK_POOLS, fixed by the environment at import time
    subs,     \* whether REDDIT_SUBREDDITS names at least one subreddit
    last,     \* what the last tick did (calls made, content chosen, status)
    probe     \* the last direct call of a helper, outside a tick

vars == <<now, state, disk, links, subs, last, probe>>

\* ---------------------------------------------------------------- bounds
MaxNow == 25          \* last clock reading explored (hours)
ClockStep == 6        \* hours between two consecutive clock readings
MaxAttempts == 6      \* invocations the environment has an outcome for
MaxNowDays == 43      \* last clock reading of the runs over several days
MaxHistory == 2       \* history records the image picker is called with
MaxNowCaps == 13      \* last clock reading of the runs with full lists
MaxBelowCap == 1      \* entries the lists lack to be full at the start
MaxCount == 3         \* largest per-type count the chooser is called with
MaxPending == 2       \* mentions waiting unprocessed when the run starts
MaxArrivals == 2      \* mentions arriving between two ticks

\* ------------------------------------------------------- program constants
IMAGE_RECENCY_DAYS == 14
NO_POST_START_HOUR == 23
NO_POST_END_HOUR == 7
MAX_POSTS_PER_DAY == 4
MAX_POSTS_PER_HOUR == 2
MAX_IMG_GMGN_PER_DAY == 2
MAX_SHORT_LINK_PER_DAY == 2
MAX_GMGN_LONG_PER_DAY == 1
TEXT_REPEAT_DAYS == 7
HISTORY_KEEP == 400
MENTIONS_KEEP == 500
FETCH_LIMIT == 25
BACKOFF_DELAY == 4
BACKOFF_CAP == 60
BACKOFF_MAX_TRIES == 5
HOURS_PER_DAY == 24

None == "None"
NoDate == -1

IMG == "post_img_gmgn_short"
LONG == "post_gmgn_long"
LINK == "post_short_link"
SKIP == "skip"
KINDS == {IMG, LONG, LINK}

SITE_URL == "site"
OPENSEA_URL == "opensea"
\* one representative title: titles are drawn at random, recorded only as the
\* text of image posts and never compared with a greeting or a URL
title_choices == {"Small art drop"}
\* one representative of the short greetings (five GM phrases; a GN base with
\* an optional emoji): they are drawn at random and never filtered for recency
GM_SHORT == {"GM sun"}
GN_SHORT == {"GN moon"}
GM_LONG == {"GM wishing", "GM new day", "GM dive"}
GN_LONG == {"GN dreams", "GN stories", "GN canvas"}
Images == {"a.png", "b.png", "c.png"}
\* the fullnames of the mentions that can appear in the inbox
MentionIds == {"t1_a", "t1_b"}

\* ------------------------------------------------------------- utilities
Min(a, b) == IF a <= b THEN a ELSE b

RECURSIVE Pow2(_)
Pow2(n) == IF n <= 0 THEN 1 ELSE 2 * Pow2(n - 1)

\* mutant: the first n elements are kept
FirstN(s, n) == IF Len(s) <= n THEN s ELSE SubSeq(s, 1, n)

\* the last n elements of s: Python's s[-n:]
LastN(s, n) == IF Len(s) <= n THEN s ELSE SubSeq(s, Len(s) - n + 1, Len(s))

\* all orderings of a finite set: the possible results of random.shuffle
Shuffles(S) == {p \in [1..Cardinality(S) -> S] : \A x \in S : \E i \in DOMAIN p : p[i] = x}

SeqToSet(s) == {s[i] : i \in DOMAIN s}

HourOf(t) == t % HOURS_PER_DAY
DateOf(t) == t \div HOURS_PER_DAY

\* ------------------------------------------------------------------ state
pertype_zero == [k \in KINDS |-> 0]

DefaultState ==
    [history |-> <<>>,
     daily |-> [date |-> NoDate, posts |-> 0],
     hourly |-> [key |-> <<NoDate, 0>>, posts |-> 0],
     processed_mentions |-> <<>>,
     pertype |-> pertype_zero]

\* STATE_FILE: exists is os.path.exists(STATE_FILE), data its parsed content
NoFile == [exists |-> FALSE, data |-> DefaultState]

load_state(file) == IF file.exists THEN file.data ELSE DefaultState

save_state(st) == [exists |-> TRUE, data |-> st]

\* mutant: the daily counters are zeroed whatever the stored date
reset_daily_unconditional(st, t) ==
    [st EXCEPT !.daily = [date |-> DateOf(t), posts |-> 0],
               !.pertype = pertype_zero]

reset_daily_if_needed(st, t) ==
    IF st.daily.date # DateOf(t)
    THEN [st EXCEPT !.daily = [date |-> DateOf(t), posts |-> 0],
                    !.pertype = pertype_zero]
    ELSE st

reset_hourly_if_needed(st, t) ==
    IF st.hourly.key # <<DateOf(t), HourOf(t)>>
    THEN [st EXCEPT !.hourly = [key |-> <<DateOf(t), HourOf(t)>>, posts |-> 0]]
    ELSE st

remember_post(st, text, media, t) ==
    [st EXCEPT !.history =
        LastN(Append(st.history, [text |-> text, ts |-> t, media |-> media]),
              HISTORY_KEEP)]

\* str.strip(): no pool string, URL or composed body starts or ends with
\* white space, so the texts are their own stripped form
strip(s) == s

recently_used_text(st, text, t) ==
    \E i \in DOMAIN st.history :
        /\ st.history[i].ts >= t - TEXT_REPEAT_DAYS * HOURS_PER_DAY
        /\ strip(st.history[i].text) = strip(text)

\* mutant: a record exactly IMAGE_RECENCY_DAYS old is no longer recent
recently_used_media_strict(st, media_path, t) ==
    \E i \in DOMAIN st.history :
        /\ st.history[i].media # None
        /\ st.history[i].ts > t - IMAGE_RECENCY_DAYS * HOURS_PER_DAY
        /\ st.history[i].media = media_path

recently_used_media(st, media_path, t) ==
    \E i \in DOMAIN st.history :
        /\ st.history[i].media # None
        /\ st.history[i].ts >= t - IMAGE_RECENCY_DAYS * HOURS_PER_DAY
        /\ st.history[i].media = media_path

\* the first element of the shuffled sequence that is not in recent, else None
RECURSIVE FirstNotRecent(_, _, _)
FirstNotRecent(shuffled, i, recent) ==
    IF i > Len(shuffled) THEN None
    ELSE IF shuffled[i] \notin recent THEN shuffled[i]
    ELSE FirstNotRecent(shuffled, i + 1, recent)

\* ----------------------------------------------------------------- images
\* imgs is what list_local_images(ASSETS_DIR) returns; the result is the set
\* of values the call can return over the shuffles and the random choice
pick_fresh_image(st, imgs, t) ==
    IF imgs = {} THEN {None}
    ELSE LET recent == {g \in imgs : recently_used_media(st, g, t)} IN
         {LET r == FirstNotRecent(sh, 1, recent)
          IN IF r # None THEN r ELSE choice :
            sh \in Shuffles(imgs), choice \in imgs}

\* ---------------------------------------------------------------- backoff
\* mutant: the attempt count is compared after one more retry
RECURSIVE backoff_loop_late(_, _, _)
backoff_loop_late(attempt, tries, sleeps) ==
    LET r == attempt[tries + 1] IN
    IF ~r.raised
    THEN [raised |-> FALSE, value |-> r.value, calls |-> tries + 1, sleeps |-> sleeps]
    ELSE LET n == tries + 1
             sleep_s == Min(BACKOFF_DELAY * Pow2(n - 1), BACKOFF_CAP)
         IN IF n > BACKOFF_MAX_TRIES
            THEN [raised |-> TRUE, value |-> None, calls |-> n,
                  sleeps |-> Append(sleeps, sleep_s)]
            ELSE backoff_loop_late(attempt, n, Append(sleeps, sleep_s))

\* attempt[i] is what the wrapped function does at its i-th invocation:
\* [raised |-> BOOLEAN, value |-> its return value]
RECURSIVE backoff_loop(_, _, _)
backoff_loop(attempt, tries, sleeps) ==
    LET r == attempt[tries + 1] IN
    IF ~r.raised
    THEN [raised |-> FALSE, value |-> r.value, calls |-> tries + 1, sleeps |-> sleeps]
    ELSE LET n == tries + 1
             sleep_s == Min(BACKOFF_DELAY * Pow2(n - 1), BACKOFF_CAP)
         IN IF n >= BACKOFF_MAX_TRIES
            THEN [raised |-> TRUE, value |-> None, calls |-> n,
                  sleeps |-> Append(sleeps, sleep_s)]
            ELSE backoff_loop(attempt, n, Append(sleeps, sleep_s))

with_backoff(attempt) == backoff_loop(attempt, 0, <<>>)

\* an environment in which the first `fails` invocations of the external
\* call raise and the later ones return
Failing(fails, i) == i <= fails

\* ---------------------------------------------------------- time windows
in_time_window(t, window) ==
    LET h == HourOf(t) IN
    IF window = "morning" THEN 7 <= h /\ h < 11
    ELSE IF window = "evening" THEN 19 <= h /\ h < 23
    ELSE IF window = "midday" THEN 11 <= h /\ h < 19
    ELSE FALSE

\* mutant: the quiet range starts at midnight
is_quiet_hours_from_midnight(t) ==
    HourOf(t) < NO_POST_END_HOUR

\* mutant: the range is not wrapped past midnight
is_quiet_hours_unwrapped(t) ==
    LET h == HourOf(t) IN
    NO_POST_START_HOUR <= h /\ h < NO_POST_END_HOUR

is_quiet_hours(t) ==
    LET h == HourOf(t) IN
    IF NO_POST_START_HOUR <= NO_POST_END_HOUR
    THEN NO_POST_START_HOUR <= h /\ h < NO_POST_END_HOUR
    ELSE h >= NO_POST_START_HOUR \/ h < NO_POST_END_HOUR

\* --------------------------------------------------------- content pickers
pick_without_recent(st, pool, t) ==
    LET recent == {s \in pool : recently_used_text(st, s, t)} IN
    {LET r == FirstNotRecent(sh, 1, recent)
     IN IF r # None THEN r ELSE choice :
        sh \in Shuffles(pool), choice \in pool}

build_gm_short == GM_SHORT

build_gn_short == GN_SHORT

pick_gmgn_text(st, t, long) ==
    IF in_time_window(t, "morning")
    THEN (IF long THEN pick_without_recent(st, GM_LONG, t) ELSE build_gm_short)
    ELSE IF in_time_window(t, "evening")
    THEN (IF long THEN pick_without_recent(st, GN_LONG, t) ELSE build_gn_short)
    ELSE build_gm_short

pick_link_short(st, pool, t) ==
    IF pool = <<>> THEN {None}
    ELSE LET recent == {u \in SeqToSet(pool) : recently_used_text(st, u, t)} IN
         {LET r == FirstNotRecent(sh, 1, recent)
          IN IF r # None THEN r ELSE sh[1] :
            sh \in Shuffles(SeqToSet(pool))}

\* the suffix line 459 appends to the body of a self-post
More(u) == "\n\n--\nMore: " \o u

\* ------------------------------------------------------- action selection
\* mutant: the morning image is gated by its daily cap only
choose_action_morning_cap(t, pertype) ==
    LET h == HourOf(t) IN
    IF (7 <= h /\ h < 11) \/ (19 <= h /\ h < 23) THEN
        IF pertype[IMG] < MAX_IMG_GMGN_PER_DAY THEN IMG
        ELSE IF pertype[LINK] < MAX_SHORT_LINK_PER_DAY THEN LINK
        ELSE IF pertype[LONG] < MAX_GMGN_LONG_PER_DAY THEN LONG
        ELSE SKIP
    ELSE IF pertype[LINK] < MAX_SHORT_LINK_PER_DAY THEN LINK
    ELSE IF pertype[LONG] < MAX_GMGN_LONG_PER_DAY THEN LONG
    ELSE SKIP

choose_action_with_caps(t, pertype) ==
    LET h == HourOf(t) IN
    IF 7 <= h /\ h < 11 THEN
        IF pertype[IMG] < MAX_IMG_GMGN_PER_DAY /\ pertype[IMG] = 0 THEN IMG
        ELSE IF pertype[LINK] < MAX_SHORT_LINK_PER_DAY THEN LINK
        ELSE IF pertype[LONG] < MAX_GMGN_LONG_PER_DAY THEN LONG
        ELSE SKIP
    ELSE IF 11 <= h /\ h < 19 THEN
        IF pertype[LINK] < MAX_SHORT_LINK_PER_DAY THEN LINK
        ELSE IF pertype[LONG] < MAX_GMGN_LONG_PER_DAY THEN LONG
        ELSE SKIP
    ELSE IF 19 <= h /\ h < 23 THEN
        IF pertype[IMG] < MAX_IMG_GMGN_PER_DAY THEN IMG
        ELSE IF pertype[LINK] < MAX_SHORT_LINK_PER_DAY THEN LINK
        ELSE IF pertype[LONG] < MAX_GMGN_LONG_PER_DAY THEN LONG
        ELSE SKIP
    ELSE IF pertype[LINK] < MAX_SHORT_LINK_PER_DAY THEN LINK
    ELSE IF pertype[LONG] < MAX_GMGN_LONG_PER_DAY THEN LONG
    ELSE SKIP

\* mutant: the daily cap is not consulted
can_post_hourly_only(st) ==
    st.hourly.posts < MAX_POSTS_PER_HOUR

can_post(st) ==
    st.daily.posts < MAX_POSTS_PER_DAY /\ st.hourly.posts < MAX_POSTS_PER_HOUR

\* ------------------------------------------------------------- engagement
\* mutant: the listing is returned unfiltered
fetch_unfiltered(st, inbox, fails) ==
    with_backoff([i \in 1..MaxAttempts |->
        IF Failing(fails, i)
        THEN [raised |-> TRUE, value |-> None]
        ELSE [raised |-> FALSE, value |-> inbox]])

\* inbox: the mentions r.inbox.mentions(limit) yields; the listing raises at
\* the first `fails` invocations
fetch_unprocessed_mentions(st, inbox, fails) ==
    with_backoff([i \in 1..MaxAttempts |->
        IF Failing(fails, i)
        THEN [raised |-> TRUE, value |-> None]
        ELSE [raised |-> FALSE,
              value |-> {m \in inbox : m \notin SeqToSet(st.processed_mentions)}]])

\* roll: "upvote" or "reply", the outcome of the 75/25 draw; item.upvote() or
\* item.reply() raises at the first `fails` invocations. The function's own
\* try/except turns a raise into the return value None.
engage_for_mention(item, roll, fails) ==
    with_backoff([i \in 1..MaxAttempts |->
        [raised |-> FALSE, value |-> IF Failing(fails, i) THEN None ELSE roll]])

\* ------------------------------------------------------------ preparation
\* Lines 437-447: the image branch. A plan is [ret, action, text, image, url];
\* ret = SKIP stands for the early `return "skip"`.
PrepImage(st, t, imgs, action) ==
    IF action # IMG
    THEN {[ret |-> "go", action |-> action, text |-> None, image |-> None, url |-> None]}
    ELSE {IF image # None
          THEN [ret |-> "go", action |-> IMG, text |-> text, image |-> image, url |-> None]
          ELSE IF st.pertype[LINK] < MAX_SHORT_LINK_PER_DAY
          THEN [ret |-> "go", action |-> LINK, text |-> text, image |-> None, url |-> None]
          ELSE IF st.pertype[LONG] < MAX_GMGN_LONG_PER_DAY
          THEN [ret |-> "go", action |-> LONG, text |-> text, image |-> None, url |-> None]
          ELSE [ret |-> SKIP, action |-> IMG, text |-> text, image |-> None, url |-> None] :
            text \in pick_gmgn_text(st, t, FALSE), image \in pick_fresh_image(st, imgs, t)}

\* Lines 449-460: the self-post branch
PrepLong(st, t, pool, p) ==
    IF p.ret = SKIP \/ p.action # LONG THEN {p}
    ELSE IF st.pertype[LONG] >= MAX_GMGN_LONG_PER_DAY
    THEN (IF st.pertype[LINK] < MAX_SHORT_LINK_PER_DAY
          THEN {[p EXCEPT !.action = LINK]}
          ELSE {[p EXCEPT !.ret = SKIP]})
    ELSE {[p EXCEPT !.text = body] :
            body \in UNION {IF pool # <<>>
                            THEN {g \o More(u) : u \in SeqToSet(pool)}
                            ELSE {g} : g \in pick_gmgn_text(st, t, TRUE)}}

\* Lines 462-473: the link branch
PrepLink(st, t, pool, p) ==
    IF p.ret = SKIP \/ p.action # LINK THEN {p}
    ELSE IF st.pertype[LINK] >= MAX_SHORT_LINK_PER_DAY
    THEN (IF st.pertype[LONG] < MAX_GMGN_LONG_PER_DAY
          THEN {[p EXCEPT !.action = LONG]}
          ELSE {[p EXCEPT !.ret = SKIP]})
    ELSE UNION {IF url # None
                THEN {[p EXCEPT !.url = url]}
                ELSE {[p EXCEPT !.action = LONG, !.text = g] :
                        g \in pick_gmgn_text(st, t, TRUE)} :
                  url \in pick_link_short(st, pool, t)}

\* Lines 436-473: the three branches in program order
Prepare(st, t, pool, imgs, action) ==
    UNION {UNION {PrepLink(st, t, pool, q) : q \in PrepLong(st, t, pool, p)} :
            p \in PrepImage(st, t, imgs, action)}

\* ------------------------------------------------------------ submission
\* the platform call raises at the first `fails` invocations
submit_link(title, url, fails) ==
    with_backoff([i \in 1..MaxAttempts |->
        [raised |-> Failing(fails, i), value |-> None]])

submit_image(title, image_path, fails) ==
    with_backoff([i \in 1..MaxAttempts |->
        [raised |-> Failing(fails, i), value |-> None]])

submit_selfpost(title, body, fails) ==
    with_backoff([i \in 1..MaxAttempts |->
        [raised |-> Failing(fails, i), value |-> None]])

\* ------------------------------------------------------------------- tick
NoCall == [raised |-> FALSE, calls |-> 0]

\* the record of a tick: fetch/submit are the wrapped calls made (NoCall when
\* not made), inbox what the listing yielded, item the mention handed
\* to engage_for_mention (None: none), kind its return value, api the number
\* of upvote/reply invocations, action the kind handed to the submit call
\* (None: no submit call)
NoTick ==
    [status |-> "none", fetch |-> NoCall, inbox |-> {}, item |-> None, kind |-> None,
     api |-> 0, action |-> None, submit |-> NoCall]

\* the external call works at once, or fails at every invocation
FailChoices == {0, MaxAttempts}

\* what a tick leaves behind: its record and, for a post, the text and media
\* that remember_post receives
Skipped(base) ==
    [last |-> [base EXCEPT !.status = SKIP], text |-> None, media |-> None]

\* Lines 475-494: the submit call chosen by the plan
Execute(p, title, base, fails) ==
    LET call == IF p.action = IMG /\ p.image # None THEN "image"
                ELSE IF p.action = LONG /\ p.text # None THEN "self"
                ELSE IF p.action = LINK /\ p.url # None THEN "link"
                ELSE "none"
        res == IF call = "image" THEN submit_image(title, p.image, fails)
               ELSE IF call = "self" THEN submit_selfpost(title, p.text, fails)
               ELSE submit_link(title, p.url, fails)
        tried == [base EXCEPT !.action = p.action,
                              !.submit = [raised |-> res.raised, calls |-> res.calls]]
    IN IF call = "none" THEN Skipped(base)
       ELSE IF res.raised
       THEN [last |-> [tried EXCEPT !.status = "post_failed"], text |-> None, media |-> None]
       ELSE [last |-> [tried EXCEPT !.status = "posted"],
             text |-> IF call = "image" THEN title
                      ELSE IF call = "self" THEN p.text ELSE p.url,
             media |-> IF call = "image" THEN p.image ELSE None]

\* Lines 402-494: the posting path; dirs are the listings the assets
\* directory can give
Posting(st, t, pool, hasSubs, dirs, base) ==
    IF ~can_post(st) \/ is_quiet_hours(t) THEN {Skipped(base)}
    ELSE LET action == choose_action_with_caps(t, st.pertype) IN
         IF action = SKIP THEN {Skipped(base)}
         ELSE IF ~hasSubs THEN {Skipped(base)}
         ELSE UNION {UNION {IF p.ret = SKIP
                            THEN {Skipped(base)}
                            ELSE {Execute(p, title, base, fails) :
                                    title \in title_choices, fails \in FailChoices} :
                              p \in Prepare(st, t, pool, imgs, action)} :
                       imgs \in dirs}

Resets(st, t) == reset_hourly_if_needed(reset_daily_if_needed(st, t), t)

\* mutant: a failed fetch ends the tick
do_one_action_fetch_fatal(st0, t, pool, hasSubs, inboxes, dirs) ==
    LET st == Resets(st0, t) IN
    UNION {
        LET f == fetch_unprocessed_mentions(st, inbox, ff)
            fetched == [NoTick EXCEPT !.fetch = [raised |-> f.raised, calls |-> f.calls],
                                      !.inbox = IF f.raised THEN {} ELSE inbox]
        IN IF f.raised THEN {Skipped(fetched)}
           ELSE IF f.value = {} THEN Posting(st, t, pool, hasSubs, dirs, fetched)
           ELSE UNION {
                LET e == engage_for_mention(item, roll, af)
                    tried == [fetched EXCEPT !.item = item,
                                             !.kind = e.value, !.api = e.calls]
                IN IF e.value # None
                   THEN {[last |-> [tried EXCEPT !.status = "engaged"],
                          text |-> None, media |-> None]}
                   ELSE Posting(st, t, pool, hasSubs, dirs, tried) :
                     item \in f.value, roll \in {"upvote", "reply"}, af \in FailChoices} :
          inbox \in inboxes, ff \in FailChoices}

\* mutant: the tick goes on to the posting path after an engagement
do_one_action_goes_on(st0, t, pool, hasSubs, inboxes, dirs) ==
    LET st == Resets(st0, t) IN
    UNION {
        LET f == fetch_unprocessed_mentions(st, inbox, ff)
            fetched == [NoTick EXCEPT !.fetch = [raised |-> f.raised, calls |-> f.calls],
                                      !.inbox = IF f.raised THEN {} ELSE inbox]
        IN IF f.raised \/ f.value = {}
           THEN Posting(st, t, pool, hasSubs, dirs, fetched)
           ELSE UNION {
                LET e == engage_for_mention(item, roll, af)
                    tried == [fetched EXCEPT !.item = item,
                                             !.kind = e.value, !.api = e.calls]
                IN Posting(st, t, pool, hasSubs, dirs, tried) :
                     item \in f.value, roll \in {"upvote", "reply"}, af \in FailChoices} :
          inbox \in inboxes, ff \in FailChoices}

\* do_one_action at clock reading t, up to its return: the set of what it
\* can leave behind over the environment's answers and the random draws;
\* inboxes are the contents the inbox can have
do_one_action(st0, t, pool, hasSubs, inboxes, dirs) ==
    LET st == Resets(st0, t) IN
    UNION {
        LET f == fetch_unprocessed_mentions(st, inbox, ff)
            fetched == [NoTick EXCEPT !.fetch = [raised |-> f.raised, calls |-> f.calls],
                                      !.inbox = IF f.raised THEN {} ELSE inbox]
        IN IF f.raised THEN Posting(st, t, pool, hasSubs, dirs, fetched)
           ELSE IF f.value = {} THEN Posting(st, t, pool, hasSubs, dirs, fetched)
           ELSE UNION {
                LET e == engage_for_mention(item, roll, af)
                    tried == [fetched EXCEPT !.item = item,
                                             !.kind = e.value, !.api = e.calls]
                IN IF e.value # None
                   THEN {[last |-> [tried EXCEPT !.status = "engaged"],
                          text |-> None, media |-> None]}
                   ELSE Posting(st, t, pool, hasSubs, dirs, tried) :
                     item \in f.value, roll \in {"upvote", "reply"}, af \in FailChoices} :
          inbox \in inboxes, ff \in FailChoices}

\* mutant: only the last engaged mention is remembered
commit_engagement_last_only(st, item) ==
    [st EXCEPT !.processed_mentions = LastN(Append(@, item), 1)]

\* mutant: the engaged mention is not recorded
commit_engagement_forgets(st, item) == st

\* Lines 391-393: the mention is appended and the list trimmed
commit_engagement(st, item) ==
    [st EXCEPT !.processed_mentions = LastN(Append(@, item), MENTIONS_KEEP)]

\* mutant: the per-type counter is left alone
commit_post_untyped(st, t, action, text, media) ==
    [remember_post(st, text, media, t) EXCEPT
        !.daily.posts = @ + 1,
        !.hourly.posts = @ + 1]

\* Lines 480-500: the history record, then the counters
commit_post(st, t, action, text, media) ==
    [remember_post(st, text, media, t) EXCEPT
        !.daily.posts = @ + 1,
        !.hourly.posts = @ + 1,
        !.pertype = IF action \in DOMAIN @ THEN [@ EXCEPT ![action] = @ + 1] ELSE @]

\* mutant: the history record and the counters are written before the submit
\* call is known to have succeeded
Commit_before_submit(st, t, o) ==
    IF o.last.status = "engaged" THEN commit_engagement(st, o.last.item)
    ELSE IF o.last.status \in {"posted", "post_failed"}
    THEN commit_post(st, t, o.last.action, o.text, o.media)
    ELSE st

\* the state dict when do_one_action returns
Commit(st, t, o) ==
    IF o.last.status = "engaged" THEN commit_engagement(st, o.last.item)
    ELSE IF o.last.status = "posted"
    THEN commit_post(st, t, o.last.action, o.text, o.media)
    ELSE st

\* mutant: the engaged return does not save
Saves_posted_only(o) == o.last.status = "posted"

\* save_state is called on the engaged and the posted return only
Saves(o) == o.last.status \in {"engaged", "posted"}

\* ----------------------------------------------------------- the program
LinkConfigs ==
    {SelectSeq(<<site, opensea>>, LAMBDA u : u # "") :
        site \in {"", SITE_URL}, opensea \in {"", OPENSEA_URL}}

Advance == {0, ClockStep, HOURS_PER_DAY}

Inboxes == {x \in SUBSET MentionIds : Cardinality(x) <= FETCH_LIMIT}

\* during a run the assets directory holds at most a.png and b.png
Listings == SUBSET {"a.png", "b.png"}

NoProbe == [fn |-> None]

Init ==
    /\ now = 1
    /\ disk = NoFile
    /\ state = load_state(NoFile)
    /\ links \in LinkConfigs
    /\ subs \in BOOLEAN
    /\ last = NoTick
    /\ probe = NoProbe

\* one call of do_one_action, the clock having advanced by dt
Step(horizon, inboxes, dirs) ==
    \E dt \in Advance :
        /\ now + dt <= horizon
        /\ \E o \in do_one_action(state, now + dt, links, subs, inboxes, dirs) :
            LET st == Commit(Resets(state, now + dt), now + dt, o) IN
            /\ now' = now + dt
            /\ state' = st
            /\ disk' = IF Saves(o) THEN save_state(st) ELSE disk
            /\ last' = o.last
        /\ UNCHANGED <<links, subs, probe>>

\* one tick of the run loop, or the one tick of an --oneshot process; nobody
\* but t1_a mentions the account
Tick == Step(MaxNow, {x \in Inboxes : x \subseteq {"t1_a"}}, Listings)

\* the process ends and a new one starts: main() loads the state file
Restart ==
    /\ state' = load_state(disk)
    /\ last' = NoTick
    /\ UNCHANGED <<now, disk, links, subs, probe>>

Next == Tick \/ Restart

Spec == Init /\ [][Next]_vars

\* ------------------------------------------------------------------ claims
PerTypeCap(k) ==
    IF k = IMG THEN 2 ELSE IF k = LINK THEN 2 ELSE 1

\* C1: every per-type counter stays within its daily cap (2 images, 2 links,
\* 1 long post) on every date, whatever the hours, the images available and
\* the link configuration.
C1_PerTypeWithinCap ==
    \A k \in KINDS : state.pertype[k] <= PerTypeCap(k)

\* C2: daily.posts never exceeds 4 and hourly.posts never exceeds 2, and a
\* tick that starts with daily.posts = 4 on the current date makes no submit
\* call, whatever the window.
C2_GlobalCaps ==
    /\ [](state.daily.posts <= 4 /\ state.hourly.posts <= 2)
    /\ [][(state.daily.posts = 4 /\ state.daily.date = DateOf(now'))
            => (last'.action = None /\ state'.daily.posts = 4)]_vars

\* the daily cap alone stops a tick: four posts today, none this hour, a
\* posting hour, and the tick skipped
C2_Witness ==
    /\ state.daily.posts = 4
    /\ state.hourly.posts = 0
    /\ ~is_quiet_hours(now)
    /\ subs
    /\ last.status = SKIP

\* C3: with the default range the quiet hours are exactly 23 and 0..6, and a
\* tick at a quiet hour makes no submit call (image, link or self-post).
C3_QuietHours ==
    /\ \A h \in 0..23 : is_quiet_hours(h) <=> (h = 23 \/ h \in 0..6)
    /\ is_quiet_hours(now) => last.action = None

\* a mention is engaged at a quiet hour: engagement is not suppressed
C3_Witness ==
    /\ is_quiet_hours(now)
    /\ last.status = "engaged"
    /\ last.kind \in {"upvote", "reply"}

\* the mentions of the listing that a tick starting in st finds unprocessed
Unprocessed(st, inbox) == {m \in inbox : m \notin SeqToSet(st.processed_mentions)}

\* the tick engaged one mention and did nothing else: one upvote or reply
\* call, that mention's id appended, no submit call, no post counter or
\* history change
EngagedOnly ==
    /\ last'.status = "engaged"
    /\ last'.api = 1
    /\ last'.kind \in {"upvote", "reply"}
    /\ state'.processed_mentions =
            LastN(Append(state.processed_mentions, last'.item), MENTIONS_KEEP)
    /\ last'.action = None
    /\ last'.submit = NoCall
    /\ state'.daily.posts = Resets(state, now').daily.posts
    /\ state'.hourly.posts = Resets(state, now').hourly.posts
    /\ state'.pertype = Resets(state, now').pertype
    /\ state'.history = state.history

C5_ProcessedNeverEngaged ==
    [][last'.item # None
            => /\ last'.item \notin SeqToSet(state.processed_mentions)
               /\ last'.item \in last'.inbox]_vars

\* the inbox held a processed mention and a new one, and the new one was
\* engaged
C5_Witness ==
    /\ last.status = "engaged"
    /\ last.inbox = MentionIds
    /\ Len(state.processed_mentions) = 2
    /\ last.item = state.processed_mentions[2]

\* C6: a submission that fails after the backoff attempts are exhausted ends
\* the tick with post_failed, with the state as the date/hour resets left it
\* and nothing saved.
C6_PostFailedLeavesState ==
    [][/\ (last'.submit.raised <=> last'.status = "post_failed")
       /\ last'.status = "post_failed"
            => /\ last'.submit.calls = 5
               /\ state' = Resets(state, now')
               /\ disk' = disk]_vars

\* a submission failed after earlier posts were recorded
C6_Witness ==
    /\ last.status = "post_failed"
    /\ last.submit.raised
    /\ last.action \in KINDS
    /\ state.history # <<>>

\* C8: a failing upvote or reply call is retried up to the attempt cap before
\* the failure reaches do_one_action.
C8_EngageRetried ==
    (last.item # None /\ last.kind = None) => last.api = 5

\* --------------------------------------------------- two mentions, no image
InitInbox ==
    /\ now = 1
    /\ disk = NoFile
    /\ state = load_state(NoFile)
    /\ links \in LinkConfigs
    /\ subs = TRUE
    /\ last = NoTick
    /\ probe = NoProbe

\* a tick in a run where the assets directory stays empty
TickInbox == Step(MaxNow, Inboxes, {{}})

NextInbox == TickInbox \/ Restart

SpecInbox == InitInbox /\ [][NextInbox]_vars

\* ------------------------------------------------- the wrapper on its own
\* what one invocation of a wrapped function does
Attempts == {[raised |-> TRUE, value |-> None],
             [raised |-> FALSE, value |-> None],
             [raised |-> FALSE, value |-> "upvote"]}

InitBackoff ==
    /\ now = 1
    /\ disk = NoFile
    /\ state = load_state(NoFile)
    /\ links = <<>>
    /\ subs = FALSE
    /\ last = NoTick
    /\ probe = NoProbe

\* one call of a function decorated with with_backoff
CallWrapped ==
    /\ \E attempt \in [1..MaxAttempts -> Attempts] :
        probe' = [fn |-> "with_backoff", attempt |-> attempt,
                  res |-> with_backoff(attempt)]
    /\ UNCHANGED <<now, state, disk, links, subs, last>>

SpecBackoff == InitBackoff /\ [][CallWrapped]_vars

\* C7: the k-th failure is followed by a sleep of min(4 * 2^(k-1), 60); a
\* call failing every time sleeps 4, 8, 16, 32, 60 and the wrapper raises
\* after the fifth invocation; a call first succeeding at invocation k <= 5
\* returns that invocation's result after k invocations and k - 1 sleeps.
C7_Backoff ==
    probe.fn = "with_backoff" =>
        LET a == probe.attempt
            r == probe.res
        IN /\ \A j \in DOMAIN r.sleeps :
                r.sleeps[j] = (IF 4 * 2^(j - 1) < 60 THEN 4 * 2^(j - 1) ELSE 60)
           /\ (\A i \in 1..5 : a[i].raised)
                => (r.raised /\ r.calls = 5 /\ r.sleeps = <<4, 8, 16, 32, 60>>)
           /\ \A k \in 1..5 :
                (~a[k].raised /\ \A i \in 1..(k - 1) : a[i].raised)
                    => /\ ~r.raised
                       /\ r.value = a[k].value
                       /\ r.calls = k
                       /\ Len(r.sleeps) = k - 1

\* a call that failed at every invocation, and would have succeeded at a sixth
C7_Witness ==
    /\ probe.fn = "with_backoff"
    /\ \A i \in 1..5 : probe.attempt[i].raised
    /\ ~probe.attempt[6].raised
    /\ probe.res.raised
    /\ probe.res.sleeps[5] = 60

\* ------------------------------------------------ several days, no image
InitDays ==
    /\ now = 1
    /\ disk = NoFile
    /\ state = load_state(NoFile)
    /\ links \in LinkConfigs
    /\ subs = TRUE
    /\ last = NoTick
    /\ probe = NoProbe

\* a tick in a run with nobody mentioning the account and no image to post
TickDays == Step(MaxNowDays, {{}}, {{}})

NextDays == TickDays \/ Restart

SpecDays == InitDays /\ [][NextDays]_vars

\* body is greeting g as submit_selfpost receives it
IsBodyOf(body, g) ==
    body = g \/ \E u \in {SITE_URL, OPENSEA_URL} : body = g \o More(u)

\* g was the greeting of a self-post recorded within the 7 days before t
UsedAsLong(history, g, t) ==
    \E i \in DOMAIN history :
        /\ history[i].ts >= t - 7 * 24
        /\ IsBodyOf(history[i].text, g)

\* C9: a long greeting posted as a self-post within the last 7 days is not
\* the body of a new self-post unless every greeting of its pool was used
\* within those 7 days.
C9_NoLongRepeat ==
    [][(last'.status = "posted" /\ last'.action = LONG) =>
        \A pool \in {GM_LONG, GN_LONG} : \A g \in pool :
            (/\ IsBodyOf(state'.history[Len(state'.history)].text, g)
             /\ UsedAsLong(state.history, g, now'))
                => \A g2 \in pool : UsedAsLong(state.history, g2, now')]_vars

\* ------------------------------------------------ the image picker on its own
\* the clock reading of the call: a day more than the image window
PickNow == (IMAGE_RECENCY_DAYS + 1) * HOURS_PER_DAY

\* history records just outside the image window, on its edge and inside it
PickRecords ==
    [text : title_choices,
     ts : {PickNow - IMAGE_RECENCY_DAYS * HOURS_PER_DAY - 1,
           PickNow - IMAGE_RECENCY_DAYS * HOURS_PER_DAY,
           PickNow - 1},
     media : Images \cup {None}]

PickHistories == UNION {[1..n -> PickRecords] : n \in 0..MaxHistory}

InitPick ==
    /\ now = PickNow
    /\ disk = NoFile
    /\ \E h \in PickHistories : state = [DefaultState EXCEPT !.history = h]
    /\ links = <<>>
    /\ subs = FALSE
    /\ last = NoTick
    /\ probe = NoProbe

\* one call of pick_fresh_image, the assets directory holding imgs
CallPick ==
    /\ \E imgs \in SUBSET Images :
        \E r \in pick_fresh_image(state, imgs, now) :
            probe' = [fn |-> "pick_fresh_image", imgs |-> imgs, result |-> r]
    /\ UNCHANGED <<now, state, disk, links, subs, last>>

SpecPick == InitPick /\ [][CallPick]_vars

\* the files of imgs with a history record at most 14 days old
UsedImages(imgs) ==
    {g \in imgs : \E i \in DOMAIN state.history :
        state.history[i].media = g /\ now - state.history[i].ts <= 14 * 24}

\* C10: with M < N of the N pool files used within the last 14 days,
\* pick_fresh_image returns a pool file that is none of the M; it returns a
\* used file only when all N were used, and None only when the pool is empty.
C10_PickFreshImage ==
    probe.fn = "pick_fresh_image" =>
        LET used == UsedImages(probe.imgs) IN
        /\ probe.result = None <=> probe.imgs = {}
        /\ probe.imgs # {} => probe.result \in probe.imgs
        /\ used # probe.imgs => probe.result \notin used
        /\ probe.result \in used => used = probe.imgs

\* three files, one used on the edge of the window and one just outside it:
\* the pick is not the one on the edge
C10_Witness ==
    /\ probe.fn = "pick_fresh_image"
    /\ probe.imgs = Images
    /\ Cardinality(UsedImages(Images)) = 1
    /\ \E i \in DOMAIN state.history :
        /\ now - state.history[i].ts = 14 * 24
        /\ state.history[i].media \in UsedImages(Images)
    /\ \E i \in DOMAIN state.history :
        /\ now - state.history[i].ts = 14 * 24 + 1
        /\ state.history[i].media = probe.result

\* ------------------------------------------------------ claims C11 onwards
\* the history records of the image posts committed on date d at an hour
\* in lo..hi-1
ImagePosts(d, lo, hi) ==
    {i \in DOMAIN state.history :
        /\ state.history[i].media # None
        /\ DateOf(state.history[i].ts) = d
        /\ lo <= HourOf(state.history[i].ts)
        /\ HourOf(state.history[i].ts) < hi}

\* C11: on one date at most 2 image posts are committed, at most one of them
\* in the morning window (07-11) and at most one in the evening window (19-23).
C11_ImageSlots ==
    \A d \in 0..DateOf(now) :
        /\ Cardinality(ImagePosts(d, 0, 24)) <= 2
        /\ Cardinality(ImagePosts(d, 7, 11)) <= 1
        /\ Cardinality(ImagePosts(d, 19, 23)) <= 1

\* C12: a tick that ends posted or engaged made its external call with
\* success, then changed the state, then saved it, so the state file holds the
\* in-memory state when the tick returns; a tick that ends otherwise saves
\* nothing.
C12_SaveAfterMutation ==
    [][/\ last'.status = "engaged"
            => /\ last'.kind # None
               /\ state' # Resets(state, now')
               /\ disk' = [exists |-> TRUE, data |-> state']
       /\ last'.status = "posted"
            => /\ last'.submit.calls >= 1 /\ ~last'.submit.raised
               /\ state' # Resets(state, now')
               /\ disk' = [exists |-> TRUE, data |-> state']
       /\ last'.status \notin {"engaged", "posted"} => disk' = disk]_vars

\* a mention is engaged after a post was saved, and both are in the file
C12_Witness ==
    /\ last.status = "engaged"
    /\ state.history # <<>>
    /\ state.processed_mentions # <<>>
    /\ disk = [exists |-> TRUE, data |-> state]

\* ------------------------------------------------- lists at their caps
\* a state file left by earlier runs: n old posts and m engaged mentions, in
\* the order they were recorded
OldState(n, m) ==
    [DefaultState EXCEPT
        !.history = [i \in 1..n |->
            [text |-> "old", ts |-> i - n - HISTORY_KEEP, media |-> None]],
        !.processed_mentions = [i \in 1..m |-> "t1_old" \o ToString(i)]]

InitCaps ==
    /\ now = 1
    /\ \E below \in 0..MaxBelowCap :
        /\ state = OldState(HISTORY_KEEP - below, MENTIONS_KEEP - below)
        /\ disk = save_state(state)
    /\ links = <<SITE_URL>>
    /\ subs = TRUE
    /\ last = NoTick
    /\ probe = NoProbe

TickCaps == Step(MaxNowCaps, Inboxes, {{}})

NextCaps == TickCaps \/ Restart

SpecCaps == InitCaps /\ [][NextCaps]_vars

\* new is old with one element appended, cut to its last cap elements
AppendedWithin(old, new, cap) ==
    /\ Len(new) = (IF Len(old) < cap THEN Len(old) + 1 ELSE cap)
    /\ \A i \in 1..(Len(new) - 1) : new[i] = old[Len(old) + 1 - Len(new) + i]

\* C13: history never holds more than 400 records and processed_mentions never
\* more than 500 ids; an append keeps the most recent entries in insertion
\* order, the new one last, and drops the oldest.
C13_ListCaps ==
    /\ [](Len(state.history) <= 400 /\ Len(state.processed_mentions) <= 500)
    /\ [][/\ last'.status = "posted"
               => /\ AppendedWithin(state.history, state'.history, 400)
                  /\ state'.history[Len(state'.history)].ts = now'
          /\ last'.status = "engaged"
               => /\ AppendedWithin(state.processed_mentions,
                                    state'.processed_mentions, 500)
                  /\ state'.processed_mentions[Len(state'.processed_mentions)]
                       = last'.item
          /\ last'.status \notin {"posted"} => state'.history = state.history
          /\ last'.status \notin {"engaged"}
               => state'.processed_mentions = state.processed_mentions]_vars

\* both lists are full and have evicted their two oldest entries
C13_Witness ==
    /\ Len(state.history) = 400
    /\ state.history[1].ts = 3 - 2 * 400
    /\ state.history[400].ts = now
    /\ Len(state.processed_mentions) = 500
    /\ state.processed_mentions[1] = "t1_old3"
    /\ state.processed_mentions[500] \in MentionIds

\* ------------------------------------------------ the chooser on its own
InitChoose ==
    /\ now = 1
    /\ disk = NoFile
    /\ state = load_state(NoFile)
    /\ links = <<>>
    /\ subs = FALSE
    /\ last = NoTick
    /\ probe = NoProbe

\* one call of choose_action_with_caps, at any hour of the day and with any
\* per-type counts
CallChoose ==
    /\ \E t \in 0..(HOURS_PER_DAY - 1), pertype \in [KINDS -> 0..MaxCount] :
        probe' = [fn |-> "choose_action_with_caps", t |-> t, pertype |-> pertype,
                  result |-> choose_action_with_caps(t, pertype)]
    /\ UNCHANGED <<now, state, disk, links, subs, last>>

SpecChoose == InitChoose /\ [][CallChoose]_vars

\* the priority order of the window hour h falls in
PriorityOrder(h) ==
    IF (7 <= h /\ h < 11) \/ (19 <= h /\ h < 23)
    THEN <<IMG, LINK, LONG>>
    ELSE <<LINK, LONG>>

\* the gate of kind k at hour h
Gate(h, k, pertype) ==
    IF k = IMG THEN (IF h < 11 THEN pertype[IMG] = 0 ELSE pertype[IMG] < 2)
    ELSE IF k = LINK THEN pertype[LINK] < 2
    ELSE pertype[LONG] < 1

\* C14: at every hour and for all per-type counts choose_action_with_caps
\* returns the first kind of the window's priority order whose gate holds,
\* and skip when none holds; the image is in the order of the morning and the
\* evening only.
C14_Chooser ==
    probe.fn = "choose_action_with_caps" =>
        LET h == probe.t % 24
            order == PriorityOrder(h)
        IN /\ \A i \in DOMAIN order :
                (Gate(h, order[i], probe.pertype)
                    /\ \A j \in 1..(i - 1) : ~Gate(h, order[j], probe.pertype))
                => probe.result = order[i]
           /\ (\A i \in DOMAIN order : ~Gate(h, order[i], probe.pertype))
                => probe.result = SKIP

\* a morning call with one image already posted: the link is chosen
C14_Witness ==
    /\ probe.fn = "choose_action_with_caps"
    /\ probe.t % 24 = 8
    /\ probe.pertype[IMG] = 1
    /\ probe.pertype[LINK] = 1
    /\ probe.result = LINK

C16_FallThroughToPosting ==
    [][(\/ last'.fetch.raised
        \/ (last'.fetch.calls = 1 /\ Unprocessed(state, last'.inbox) = {})
        \/ (last'.item # None /\ last'.kind = None))
        => LET st == Resets(state, now') IN
           /\ last'.status \in {SKIP, "post_failed", "posted"}
           /\ state'.processed_mentions = state.processed_mentions
           /\ last'.fetch.raised => last'.fetch.calls = 5
           /\ (~can_post(st) \/ is_quiet_hours(now'))
                => (last'.status = SKIP /\ last'.submit = NoCall)
           /\ (/\ can_post(st) /\ ~is_quiet_hours(now') /\ subs /\ links # <<>>
               /\ choose_action_with_caps(now', st.pertype) = LINK)
                => (last'.action = LINK /\ last'.submit.calls >= 1)]_vars

\* the fetch failed five times and the tick posted
C16_Witness ==
    /\ last.fetch.raised
    /\ last.fetch.calls = 5
    /\ last.status = "posted"

\* ------------------------------------------------- the resets on their own
\* clock readings of the calls: two hours of one date and one of the next
ResetTimes == {NO_POST_END_HOUR, NO_POST_END_HOUR + 1,
               HOURS_PER_DAY + NO_POST_END_HOUR}

\* state dicts with counters of the default state, of those dates and hours
ResetStates ==
    {[DefaultState EXCEPT !.daily = [date |-> d, posts |-> n],
                          !.hourly = [key |-> k, posts |-> Min(n, m)],
                          !.pertype = [pertype_zero EXCEPT ![LINK] = Min(n, m)]] :
        d \in {NoDate} \cup {DateOf(t) : t \in ResetTimes},
        k \in {<<NoDate, 0>>} \cup {<<DateOf(t), HourOf(t)>> : t \in ResetTimes},
        n \in 0..MaxCount, m \in 0..MAX_POSTS_PER_HOUR}

InitReset ==
    /\ now \in ResetTimes
    /\ disk = NoFile
    /\ state \in ResetStates
    /\ links = <<>>
    /\ subs = FALSE
    /\ last = NoTick
    /\ probe = NoProbe

\* one call of reset_daily_if_needed on the state dict
CallResetDaily ==
    /\ probe' = [fn |-> "reset_daily_if_needed", before |-> state]
    /\ state' = reset_daily_if_needed(state, now)
    /\ UNCHANGED <<now, disk, links, subs, last>>

\* one call of reset_hourly_if_needed on the state dict
CallResetHourly ==
    /\ probe' = [fn |-> "reset_hourly_if_needed", before |-> state]
    /\ state' = reset_hourly_if_needed(state, now)
    /\ UNCHANGED <<now, disk, links, subs, last>>

NextReset == CallResetDaily \/ CallResetHourly

SpecReset == InitReset /\ [][NextReset]_vars

Counters(st) == <<st.daily, st.hourly, st.pertype>>

\* C17: a second reset with the same timestamp changes nothing, and a reset
\* whose date (hour key) is the stored one changes nothing.
C17_ResetIdempotent ==
    /\ probe.fn = "reset_daily_if_needed" =>
        /\ Counters(reset_daily_if_needed(state, now)) = Counters(state)
        /\ probe.before.daily.date = now \div 24
            => Counters(state) = Counters(probe.before)
        /\ state.daily.date = now \div 24
    /\ probe.fn = "reset_hourly_if_needed" =>
        /\ Counters(reset_hourly_if_needed(state, now)) = Counters(state)
        /\ probe.before.hourly.key = <<now \div 24, now % 24>>
            => Counters(state) = Counters(probe.before)
        /\ state.hourly.key = <<now \div 24, now % 24>>

\* the daily reset was called on counters of the current date and left the
\* posts of the day in place
C17_Witness ==
    /\ probe.fn = "reset_daily_if_needed"
    /\ probe.before.daily.date = now \div 24
    /\ state.daily.posts > 0
    /\ state.pertype[LINK] > 0

\* the place of a kind in the priority order image, link, long
Rank(k) == IF k = IMG THEN 1 ELSE IF k = LINK THEN 2 ELSE 3

\* C18: when the content of the kind selected cannot be produced, the kind
\* committed is a later kind of the priority order that is under its daily
\* cap; the tick skips when there is none.
C18_DowngradeForward ==
    [][last'.status = "posted" =>
        LET st == Resets(state, now')
            chosen == choose_action_with_caps(now', st.pertype)
        IN /\ chosen # SKIP
           /\ Rank(last'.action) >= Rank(chosen)
           /\ st.pertype[last'.action] < PerTypeCap(last'.action)]_vars

\* ------------------------------------------- a stream of arriving mentions
\* Mentions are numbered in their order of arrival. listing(n) is what
\* r.inbox.mentions(limit=25) yields when n mentions have arrived: the 25
\* most recent ones.
listing(n) == {i \in 1..n : i > n - FETCH_LIMIT}

\* the account was mentioned n times before the run and the earlier runs
\* engaged the first m of those mentions, oldest first
InitStream ==
    /\ now = 1
    /\ \E below \in 0..MaxBelowCap, pending \in 0..MaxPending :
        /\ state = [DefaultState EXCEPT
                        !.processed_mentions = [i \in 1..(MENTIONS_KEEP - below) |-> i]]
        /\ probe = [fn |-> "mentions",
                    arrived |-> MENTIONS_KEEP - below + pending,
                    engaged |-> 1..(MENTIONS_KEEP - below)]
    /\ disk = save_state(state)
    /\ links = <<>>
    /\ subs = FALSE
    /\ last = NoTick

\* new mentions arrive, then one tick; probe.engaged collects the mentions
\* upvoted or replied to so far
TickStream ==
    \E dt \in Advance, more \in 0..MaxArrivals :
        LET n == probe.arrived + more IN
        /\ now + dt <= MaxNow
        /\ n <= MENTIONS_KEEP + MaxPending + MaxArrivals
        /\ \E o \in do_one_action(state, now + dt, links, subs, {listing(n)}, {{}}) :
            LET st == Commit(Resets(state, now + dt), now + dt, o) IN
            /\ now' = now + dt
            /\ state' = st
            /\ disk' = IF Saves(o) THEN save_state(st) ELSE disk
            /\ last' = o.last
            /\ probe' = [probe EXCEPT
                            !.arrived = n,
                            !.engaged = IF o.last.kind # None
                                        THEN @ \cup {o.last.item} ELSE @]
        /\ UNCHANGED <<links, subs>>

SpecStream == InitStream /\ [][TickStream]_vars

\* C19: no mention is upvoted or replied to twice, also once ids have been
\* evicted from the 500 entries of processed_mentions, each tick fetching the
\* 25 most recent mentions.
C19_NoReengagement ==
    [][last'.kind # None =>
        /\ last'.item \notin probe.engaged
        /\ last'.item \in listing(probe'.arrived)]_vars

\* the list was full, the listing held engaged mentions, and a new mention
\* was engaged: the oldest ids were evicted and none of them is in the listing
C19_Witness ==
    /\ last.status = "engaged"
    /\ Len(state.processed_mentions) = 500
    /\ state.processed_mentions[1] > 2
    /\ \E m \in last.inbox : m # last.item /\ m \in probe.engaged
    /\ \A i \in 1..(state.processed_mentions[1] - 1) : i \notin last.inbox

\* C20: daily.posts is the sum of the three per-type counters after every
\* tick; a posted tick adds 1 to daily.posts, to hourly.posts and to the
\* counter of the kind posted only, and no other tick adds to any of them.
C20_DailyIsSumOfTypes ==
    /\ [](state.daily.posts
            = state.pertype[IMG] + state.pertype[LINK] + state.pertype[LONG])
    /\ [][/\ last'.status = "posted"
               => /\ state'.daily.posts = Resets(state, now').daily.posts + 1
                  /\ state'.hourly.posts = Resets(state, now').hourly.posts + 1
                  /\ \A k \in KINDS :
                        state'.pertype[k] = Resets(state, now').pertype[k]
                            + (IF k = last'.action THEN 1 ELSE 0)
          /\ last'.status \in {SKIP, "post_failed", "engaged"}
               => Counters(state') = Counters(Resets(state, now'))]_vars

\* four posts of the three kinds on one date
C20_Witness ==
    /\ last.status = "posted"
    /\ state.daily.posts = 4
    /\ state.pertype[IMG] = 1
    /\ state.pertype[LINK] = 2
    /\ state.pertype[LONG] = 1

\* ------------------------------------------------- ticks at every hour
\* a process started at any hour of the first day
InitHours ==
    /\ now \in 0..(HOURS_PER_DAY - 1)
    /\ disk = NoFile
    /\ state = load_state(NoFile)
    /\ links \in LinkConfigs
    /\ subs = TRUE
    /\ last = NoTick
    /\ probe = NoProbe

\* a tick within the hour the process started in, nobody mentioning the
\* account
TickHours == Step(now, {{}}, Listings)

NextHours == TickHours \/ Restart

SpecHours == InitHours /\ [][NextHours]_vars

\* C21: every hour outside the morning, midday and evening windows is a quiet
\* hour; a post is committed at an hour of 7..22 only, and an image post at
\* an hour of 7..10 or 19..22 only.
C21_PostingHours ==
    /\ \A h \in 0..23 :
        ~(\/ in_time_window(h, "morning")
          \/ in_time_window(h, "midday")
          \/ in_time_window(h, "evening")) => is_quiet_hours(h)
    /\ last.status = "posted" => (7 <= now % 24 /\ now % 24 < 23)
    /\ (last.status = "posted" /\ last.action = IMG)
        => (now % 24 \in 7..10 \/ now % 24 \in 19..22)

\* an image post committed in the last hour of the evening window
C21_Witness ==
    /\ last.status = "posted"
    /\ last.action = IMG
    /\ now % 24 = 22
    /\ state.history[Len(state.history)].media \in Images

====
